---------------------------- MODULE Spec2Model ----------------------------
(***************************************************************************)
(* Vigenere Lab (src/src/App.tsx): the analysis functions and the state    *)
(* of the VigenereIoCKasiskiMiniApp component.                             *)
(*                                                                         *)
(* Strings are sequences of character codes (65 = "A", 97 = "a"), so that  *)
(* charCodeAt, toUpperCase and the regular-expression tests are computed.  *)
(* Real numbers are exact rationals or fixed-point integers; IEEE rounding *)
(* of the doubles is not modelled.                                         *)
(***************************************************************************)
EXTENDS Integers, Sequences, FiniteSets, TLC

VARIABLES
    raw,            \* useState<string>("")            the pasted ciphertext
    ngram,          \* useState(3)                     n-gram length
    pairwise,       \* useState(true)                  distance mode
    maxK,           \* useState(30)                    max k for the charts
    limitFactors,   \* useState(30)                    factor limit
    selectedGram,   \* useState<string>("")            highlighted gram
    selectedK,      \* useState<number | null>(null)   pinned key length
    colIndex,       \* useState(0)                     active column
    keyShifts,      \* useState<(number | null)[]>([]) key state
    manualKeyInput, \* useState("")                    manual key text box
    pc,             \* which function has been applied (function specifications)
    fnArgs,         \* the arguments of the applied function
    fnOut           \* its result

vars == <<raw, ngram, pairwise, maxK, limitFactors, selectedGram, selectedK,
          colIndex, keyShifts, manualKeyInput, pc, fnArgs, fnOut>>

appVars == <<raw, ngram, pairwise, maxK, limitFactors, selectedGram, selectedK,
             colIndex, keyShifts, manualKeyInput>>

\* null of (number | null); shifts are 0..25 and key lengths >= 1
Null == -1

Max(a, b) == IF a >= b THEN a ELSE b
Min(a, b) == IF a <= b THEN a ELSE b

(***************************************************************************)
(* Characters                                                              *)
(***************************************************************************)
\* /[A-Z]/ on one character
IsAZ(c) == c >= 65 /\ c <= 90

\* /[A-Za-z]/.test(ch)
IsAlpha(c) == IsAZ(c) \/ (c >= 97 /\ c <= 122)

\* String.prototype.toUpperCase on one character (code points up to U+017F):
\* ASCII and Latin-1 letters move by 32; sharp s (U+00DF) becomes "SS",
\* dotless i (U+0131) becomes "I", long s (U+017F) becomes "S".
toUpperCase(c) ==
    IF c >= 97 /\ c <= 122 THEN <<c - 32>>
    ELSE IF c = 223 THEN <<83, 83>>
    ELSE IF c >= 224 /\ c <= 254 /\ c # 247 THEN <<c - 32>>
    ELSE IF c = 305 THEN <<73>>
    ELSE IF c = 383 THEN <<83>>
    ELSE <<c>>

RECURSIVE UpperStr(_)
UpperStr(s) == IF s = <<>> THEN <<>> ELSE toUpperCase(Head(s)) \o UpperStr(Tail(s))

\* (s || "").toUpperCase().replace(/[^A-Z]/g, "")
normalizeAZ(s) == SelectSeq(UpperStr(s), IsAZ)

(***************************************************************************)
(* Columns                                                                 *)
(***************************************************************************)
\* for (let i = 0; i < s.length; i++) cols[i % k] += s[i];
\* st is the loop state: the index i and the columns built so far
RECURSIVE SplitLoop(_, _, _)
SplitLoop(s, k, st) ==
    IF st.i >= Len(s) THEN st.cols
    ELSE SplitLoop(s, k,
                   [i |-> st.i + 1,
                    cols |-> [st.cols EXCEPT ![(st.i % k) + 1] = Append(@, s[st.i + 1])]])

\* a loop that starts at i = 1 and so loses the first character
splitColumnsSkipFirst(s, k) == SplitLoop(s, k, [i |-> 1, cols |-> [c \in 1..k |-> <<>>]])

\* cols = Array.from({length: k}, () => "")
\* (column i of the code is element i + 1 of the sequence)
splitColumns(s, k) == SplitLoop(s, k, [i |-> 0, cols |-> [c \in 1..k |-> <<>>]])

(***************************************************************************)
(* Index of coincidence.  A value is a fraction <<num, den>> in lowest     *)
(* terms; the sweep rounds the mean to 5 decimals (units of 10^-5).        *)
(***************************************************************************)
RECURSIVE GCD(_, _)
GCD(a, b) == IF b = 0 THEN a ELSE GCD(b, a % b)

Frac(n, d) == <<n \div GCD(n, d), d \div GCD(n, d)>>

FracAdd(x, y) == Frac(x[1] * y[2] + y[1] * x[2], x[2] * y[2])

\* c[s.charCodeAt(i) - 65]++ for every i
LetterCounts(s) == [c \in 0..25 |-> Cardinality({i \in 1..Len(s) : s[i] - 65 = c})]

\* for (const x of c) num += x * (x - 1)
RECURSIVE IocNum(_, _)
IocNum(c, i) == IF i > 25 THEN 0 ELSE c[i] * (c[i] - 1) + IocNum(c, i + 1)

\* if (s.length < 2) return 0; ... return num / (N * (N - 1))
ioc(s) ==
    IF Len(s) < 2 THEN <<0, 1>>
    ELSE Frac(IocNum(LetterCounts(s), 0), Len(s) * (Len(s) - 1))

\* cols.reduce((acc, col) => acc + ioc(col), 0); st is the state of the
\* reduction: the next column i and the sum acc
RECURSIVE IocSum(_, _)
IocSum(cols, st) ==
    IF st.i > Len(cols) THEN st.acc
    ELSE IocSum(cols, [i |-> st.i + 1, acc |-> FracAdd(st.acc, ioc(cols[st.i]))])

\* Number(x.toFixed(5)) of the fraction n / d < 1 + 1: the integer part and
\* "digits" decimal digits by long division, the last one rounded half up
RECURSIVE FixedDigits(_, _, _, _)
FixedDigits(r, d, digits, acc) ==
    IF digits = 0 THEN (IF 2 * r >= d THEN acc + 1 ELSE acc)
    ELSE FixedDigits((r * 10) % d, d, digits - 1, acc * 10 + ((r * 10) \div d))

ToFixed5(x) == FixedDigits(x[1] % x[2], x[2], 5, x[1] \div x[2])

\* for (let k = 1; k <= maxK; k++) { ...; out.push({ k, ioc: Number(mean.toFixed(5)) }); }
iocSweep(s, mk) ==
    [k \in 1..mk |->
        [k |-> k,
         ioc |-> ToFixed5(LET sum == IocSum(splitColumns(s, k), [i |-> 1, acc |-> <<0, 1>>])
                          IN  Frac(sum[1], sum[2] * k))]]

(***************************************************************************)
(* Kasiski: repeated n-grams, distances, factor votes                      *)
(***************************************************************************)
\* s.slice(i, i + n) for a 0-based i with i + n <= s.length
Slice(s, i, n) == SubSeq(s, i + 1, i + n)

GramIndex(map, g) ==
    IF \E m \in 1..Len(map) : map[m].gram = g
    THEN CHOOSE m \in 1..Len(map) : map[m].gram = g
    ELSE 0

\* for (let i = 0; i <= s.length - n; i++) { const g = s.slice(i, i + n); (map[g] ||= []).push(i); }
\* map keeps its keys in insertion order
RECURSIVE GramMap(_, _, _, _)
GramMap(s, n, i, map) ==
    IF i > Len(s) - n THEN map
    ELSE LET g == Slice(s, i, n)
             m == GramIndex(map, g)
         IN  IF m = 0
             THEN GramMap(s, n, i + 1, Append(map, [gram |-> g, positions |-> <<i>>]))
             ELSE GramMap(s, n, i + 1, [map EXCEPT ![m].positions = Append(@, i)])

\* an unstable sort: an element goes before the earlier elements of its weight
InsertDescBeforeEqual(sorted, ws, x, w) ==
    LET p == Cardinality({j \in 1..Len(ws) : ws[j] > w})
    IN  [sorted |-> SubSeq(sorted, 1, p) \o <<x>> \o SubSeq(sorted, p + 1, Len(sorted)),
         ws |-> SubSeq(ws, 1, p) \o <<w>> \o SubSeq(ws, p + 1, Len(ws))]

\* Array.prototype.sort with comparator (a, b) => w(b) - w(a): stable, so an
\* element goes after every earlier element of at least its weight.
\* sorted and ws are the elements placed so far and their weights.
InsertDesc(sorted, ws, x, w) ==
    LET p == Cardinality({j \in 1..Len(ws) : ws[j] >= w})
    IN  [sorted |-> SubSeq(sorted, 1, p) \o <<x>> \o SubSeq(sorted, p + 1, Len(sorted)),
         ws |-> SubSeq(ws, 1, p) \o <<w>> \o SubSeq(ws, p + 1, Len(ws))]

RECURSIVE SortDescFrom(_, _, _)
SortDescFrom(items, weights, acc) ==
    IF Len(acc.sorted) = Len(items) THEN acc.sorted
    ELSE SortDescFrom(items, weights,
                      InsertDesc(acc.sorted, acc.ws,
                                 items[Len(acc.sorted) + 1], weights[Len(acc.sorted) + 1]))

SortDesc(items, weights) == SortDescFrom(items, weights, [sorted |-> <<>>, ws |-> <<>>])

\* Object.entries(map).filter(([, pos]) => pos.length >= 2)
\*   .sort((a, b) => b[1].length - a[1].length).map(...)
findRepeats(s, n) ==
    LET kept == SelectSeq(GramMap(s, n, 0, <<>>), LAMBDA e : Len(e.positions) >= 2)
    IN  SortDesc(kept, [i \in 1..Len(kept) |-> Len(kept[i].positions)])

\* successiveOnly: positions[i + 1] - positions[i];
\* otherwise positions[j] - positions[i] for i < j, i outer, j inner
RECURSIVE PairDistances(_, _, _)
PairDistances(positions, i, j) ==
    IF i > Len(positions) THEN <<>>
    ELSE IF j > Len(positions) THEN PairDistances(positions, i + 1, i + 2)
    ELSE <<positions[j] - positions[i]>> \o PairDistances(positions, i, j + 1)

distancesFromPositions(positions, successiveOnly) ==
    IF successiveOnly
    THEN [i \in 1..(Len(positions) - 1) |-> positions[i + 1] - positions[i]]
    ELSE PairDistances(positions, 1, 2)

\* a table that records a factor once, however many distances it divides
AddVotesOverwrite(votes, f, c) ==
    IF f \in DOMAIN votes THEN [votes EXCEPT ![f] = c] ELSE votes @@ (f :> c)

\* votes[f] = (votes[f] || 0) + c: a table holds only the keys that were set
AddVotes(votes, f, c) ==
    IF f \in DOMAIN votes THEN [votes EXCEPT ![f] = @ + c] ELSE votes @@ (f :> c)

\* for (let f = 2; f <= Math.min(limit, d); f++) { if (d % f === 0) votes[f] = (votes[f] || 0) + 1; }
\* st is the loop state: the candidate f and the table votes
RECURSIVE FactorLoop(_, _, _)
FactorLoop(d, limit, st) ==
    IF st.f > Min(limit, d) THEN st.votes
    ELSE FactorLoop(d, limit,
                    [f |-> st.f + 1,
                     votes |-> IF d % st.f = 0 THEN AddVotes(st.votes, st.f, 1)
                               ELSE st.votes])

\* for (const d of distances) { ... }
RECURSIVE VotesLoop(_, _, _)
VotesLoop(distances, limit, st) ==
    IF st.i > Len(distances) THEN st.votes
    ELSE VotesLoop(distances, limit,
                   [i |-> st.i + 1,
                    votes |-> FactorLoop(distances[st.i], limit,
                                         [f |-> 2, votes |-> st.votes])])

EmptyTable == [f \in {} |-> 0]

factorVotes(distances, limit) ==
    VotesLoop(distances, limit, [i |-> 1, votes |-> EmptyTable])

\* the keys of a table in ascending order, as Object.entries lists integer keys
SortedKeys(S) ==
    [i \in 1..Cardinality(S) |-> CHOOSE x \in S : Cardinality({y \in S : y < x}) = i - 1]

\* for (const [k, c] of Object.entries(v)) counts[Number(k)] = (counts[Number(k)] || 0) + c
RECURSIVE MergeVotes(_, _, _)
MergeVotes(v, keys, st) ==
    IF st.i > Len(keys) THEN st.counts
    ELSE MergeVotes(v, keys,
                    [i |-> st.i + 1,
                     counts |-> AddVotes(st.counts, keys[st.i], v[keys[st.i]])])

\* for (const r of repeats) { dists = ...; v = factorVotes(dists, limitFactors); ... }
RECURSIVE KasiskiLoop(_, _, _, _)
KasiskiLoop(repeats, pw, limit, st) ==
    IF st.i > Len(repeats) THEN st.counts
    ELSE LET v == factorVotes(distancesFromPositions(repeats[st.i].positions, ~pw), limit)
         IN  KasiskiLoop(repeats, pw, limit,
                         [i |-> st.i + 1,
                          counts |-> MergeVotes(v, SortedKeys(DOMAIN v),
                                                [i |-> 1, counts |-> st.counts])])

kasiskiVotes(repeats, pw, limit) ==
    KasiskiLoop(repeats, pw, limit, [i |-> 1, counts |-> EmptyTable])

\* Object.entries(kasiskiVotes).map(...).filter((d) => d.k <= maxK).sort((a, b) => a.k - b.k)
kasiskiData(votes, mk) ==
    LET keys == SortedKeys({k \in DOMAIN votes : k <= mk})
    IN  [i \in 1..Len(keys) |-> [k |-> keys[i], votes |-> votes[keys[i]]]]

(***************************************************************************)
(* Key letters and the partial decoder                                     *)
(***************************************************************************)
\* s === null ? "?" : String.fromCharCode(65 + ((s % 26 + 26) % 26))
shiftToLetter(s) == IF s = Null THEN 63 ELSE 65 + (((s % 26) + 26) % 26)

\* (ch.toUpperCase().charCodeAt(0) - 65 + 26) % 26
letterToShift(ch) == (toUpperCase(ch)[1] - 65 + 26) % 26

\* the body of "for (const ch of original)": pos is the 1-based position in
\* original, j the count of letters seen so far; "·" is code 183
RECURSIVE DecodeLoop(_, _, _, _, _)
DecodeLoop(original, ks, k, pos, j) ==
    IF pos > Len(original) THEN <<>>
    ELSE LET ch == original[pos] IN
         IF IsAlpha(ch)
         THEN LET upper == toUpperCase(ch)
                  \* keyShifts[j % k]; undefined past the end of the array
                  s == IF (j % k) + 1 <= Len(ks) THEN ks[(j % k) + 1] ELSE Null
              IN  IF s = Null
                  THEN <<183>> \o DecodeLoop(original, ks, k, pos + 1, j + 1)
                  ELSE <<((upper[1] - 65 - s + 26) % 26) + 65>>
                       \o DecodeLoop(original, ks, k, pos + 1, j + 1)
         ELSE <<ch>> \o DecodeLoop(original, ks, k, pos + 1, j)

\* a decoder that adds the shift where the code subtracts it
decodePartialAdds(original, ks, k) ==
    IF original = <<>> \/ k <= 0 THEN original
    ELSE DecodeLoop(original,
                    [i \in DOMAIN ks |-> IF ks[i] = Null THEN Null ELSE (26 - ks[i]) % 26],
                    k, 1, 0)

decodePartial(original, ks, k) ==
    IF original = <<>> \/ k <= 0 THEN original
    ELSE DecodeLoop(original, ks, k, 1, 0)

(***************************************************************************)
(* Fixed-point arithmetic for the chi-square score.  A non-negative number *)
(* is a sequence of base-10000 digits, least significant first, without    *)
(* leading zeros (zero is the empty sequence): it stands for the score in  *)
(* units of 10^-13, or in units of 10^-3 once rounded by toFixed(3).       *)
(***************************************************************************)
RECURSIVE BigStrip(_)
BigStrip(x) ==
    IF x = <<>> \/ x[Len(x)] # 0 THEN x ELSE BigStrip(SubSeq(x, 1, Len(x) - 1))

RECURSIVE BigCarry(_, _)
BigCarry(x, c) ==
    IF x = <<>>
    THEN IF c = 0 THEN <<>> ELSE <<c % 10000>> \o BigCarry(<<>>, c \div 10000)
    ELSE <<(Head(x) + c) % 10000>> \o BigCarry(Tail(x), (Head(x) + c) \div 10000)

BigDigit(x, i) == IF i >= 1 /\ i <= Len(x) THEN x[i] ELSE 0

BigOfInt(n) == BigStrip(BigCarry(<<n>>, 0))

BigAdd(x, y) ==
    BigStrip(BigCarry([i \in 1..Max(Len(x), Len(y)) |-> BigDigit(x, i) + BigDigit(y, i)], 0))

RECURSIVE BigConv(_, _, _, _)
BigConv(x, y, n, i) ==
    IF i > Len(x) THEN 0 ELSE x[i] * BigDigit(y, n - i + 1) + BigConv(x, y, n, i + 1)

BigMul(x, y) ==
    BigStrip(BigCarry([n \in 1..(Len(x) + Len(y)) |-> BigConv(x, y, n, 1)], 0))

\* floor(x / d) for 1 <= d <= 21474836: short division from the top digit,
\* each digit brought down in two halves of two decimal places
RECURSIVE BigDivLoop(_, _, _, _)
BigDivLoop(x, d, i, rem) ==
    IF i = 0 THEN <<>>
    ELSE LET r1 == rem * 100 + (x[i] \div 100)
             r2 == (r1 % d) * 100 + (x[i] % 100)
         IN  BigDivLoop(x, d, i - 1, r2 % d)
             \o <<(r1 \div d) * 100 + (r2 \div d)>>

BigDivInt(x, d) == BigStrip(BigDivLoop(x, d, Len(x), 0))

RECURSIVE BigLessFrom(_, _, _)
BigLessFrom(x, y, i) ==
    IF i = 0 THEN FALSE
    ELSE IF x[i] # y[i] THEN x[i] < y[i]
    ELSE BigLessFrom(x, y, i - 1)

BigLess(x, y) ==
    IF Len(x) # Len(y) THEN Len(x) < Len(y) ELSE BigLessFrom(x, y, Len(x))

(***************************************************************************)
(* Chi-square scorer                                                       *)
(***************************************************************************)
\* ENG, in units of 10^-5
ENG == <<8167, 1492, 2782, 4253, 12702, 2228, 2015, 6094, 6966,
         153, 772, 4025, 2406, 6749, 7507, 1929, 95, 5987,
         6327, 9056, 2758, 978, 2360, 150, 1974, 74>>

\* for (const ch of col) { const i = (ch.charCodeAt(0) - 65 - k + 26) % 26; freq[i]++; }
\* st is the loop state: the position pos in col and the table freq
RECURSIVE FreqLoop(_, _, _)
FreqLoop(col, k, st) ==
    IF st.pos > Len(col) THEN st.freq
    ELSE FreqLoop(col, k,
                  [pos |-> st.pos + 1,
                   freq |-> [st.freq EXCEPT ![(col[st.pos] - 65 - k + 26) % 26] = @ + 1]])

\* (O - E) * (O - E) / divisor in units of 10^-13, rounded down; E and the
\* divisor are in units of 10^-5, so O - E is (100000 * O - E) * 10^-5
ChiTerm(O, E, divisor) ==
    LET a == IF 100000 * O >= E THEN 100000 * O - E ELSE E - 100000 * O
    IN  BigDivInt(<<0, 0>> \o BigMul(BigOfInt(a), BigOfInt(a)), divisor)

\* E || 1: E itself unless it is 0 (1 is 100000 units of 10^-5)
DivisorFloored(E) == IF E < 100000 THEN 100000 ELSE E

Divisor(E) == IF E = 0 THEN 100000 ELSE E

\* for (let i = 0; i < 26; i++) { const E = ENG[i] * N; const O = freq[i]; chi += ... }
\* (the terms lo..hi added up, by halves to keep the recursion shallow)
RECURSIVE ChiLoop(_, _, _, _)
ChiLoop(freq, N, lo, hi) ==
    IF lo = hi
    THEN ChiTerm(freq[lo], ENG[lo + 1] * N, Divisor(ENG[lo + 1] * N))
    ELSE BigAdd(ChiLoop(freq, N, lo, (lo + hi) \div 2),
                ChiLoop(freq, N, ((lo + hi) \div 2) + 1, hi))

\* the score in units of 10^-13; 1e9 for the empty column
chiForShift(col, k) ==
    IF Len(col) = 0 THEN <<0, 0, 0, 0, 0, 100>>
    ELSE ChiLoop(FreqLoop(col, k, [pos |-> 1, freq |-> [i \in 0..25 |-> 0]]), Len(col), 0, 25)

\* Number(x.toFixed(3)): units of 10^-3, halves rounded up
ToFixed3(x) == BigDivInt(SubSeq(BigAdd(x, <<0, 0, 50>>), 3, Len(BigAdd(x, <<0, 0, 50>>))), 100)

\* Array.from({ length: 26 }, (_, s) => ({ shift: s, chi: Number(chiForShift(activeCol, s).toFixed(3)) }))
chiData(activeCol) == [s \in 0..25 |-> ToFixed3(chiForShift(activeCol, s))]

\* chiData.reduce((best, d) => (d.chi < best.chi ? d : best), chiData[0]).shift
RECURSIVE BestLoop(_, _, _)
BestLoop(data, s, best) ==
    IF s > 25 THEN best
    ELSE IF BigLess(data[s], data[best]) THEN BestLoop(data, s + 1, s)
    ELSE BestLoop(data, s + 1, best)

bestShift(activeCol) == BestLoop(chiData(activeCol), 0, 0)

(***************************************************************************)
(* The inputs the handlers are given                                       *)
(***************************************************************************)
\* const examplePaste = `CVP{BCT34W!}KQJKFZQNZEXXQKQZZ...`
examplePaste ==
    <<67, 86, 80, 123, 66, 67, 84, 51, 52, 87, 33, 125, 75, 81, 74, 75, 70, 90,
      81, 78, 90, 69, 88, 88, 81, 75, 81, 90, 90, 46, 46, 46>>

\* texts typed into the ciphertext box: "", "abc ABC, abc", "ABCDEAFGHI",
\* "ABCDEFGHIJKABC", "AbcDEFgab!cXabc"
TypedTexts ==
    { <<>>,
      <<97, 98, 99, 32, 65, 66, 67, 44, 32, 97, 98, 99>>,
      <<65, 66, 67, 68, 69, 65, 70, 71, 72, 73>>,
      <<65, 66, 67, 68, 69, 70, 71, 72, 73, 74, 75, 65, 66, 67>>,
      <<65, 98, 99, 68, 69, 70, 103, 97, 98, 33, 99, 88, 97, 98, 99>> }

RawTexts == TypedTexts \cup {examplePaste}

\* slider positions: n-gram 3..6, factor limit and max K 10..40, k 1..40, shift 0..25
NgramChoices == {3, 6}
LimitChoices == {10, 40}
MaxKChoices == {10, 40}
KSliderChoices == {1, 40}
ShiftChoices == {0, 25}

\* texts typed into the numeric k box: "", "0", "3", "41", "-2", "x"
KTexts == {<<>>, <<48>>, <<51>>, <<52, 49>>, <<45, 50>>, <<120>>}

\* texts typed into the manual key box: "", "-1", "b-Z"
ManualKeys == {<<>>, <<45, 49>>, <<98, 45, 90>>}

\* rows of the repeat table, bars of the Kasiski chart and key-composer
\* buttons that get clicked
MaxRows == 1
MaxBars == 1
MaxCol == 1

(***************************************************************************)
(* Derived values of the component (the useMemo chain)                     *)
(***************************************************************************)
\* [...data].sort((a, b) => w(b) - w(a))[0]?.k ; Null stands for undefined
TopK(data, weights) ==
    IF Len(data) = 0 THEN Null ELSE SortDesc(data, weights)[1].k

\* sanitized, repeats, kasiskiVotes, kasiskiData, iocData and the two
\* fallback candidates of workingK, for one value of their dependencies
Analysis(r, n, pw, mk, limit) ==
    LET sanitized == normalizeAZ(r)
        repeats == findRepeats(sanitized, n)
        votes == kasiskiVotes(repeats, pw, limit)
        kData == kasiskiData(votes, mk)
        iData == iocSweep(sanitized, mk)
    IN  [sanitized |-> sanitized,
         repeats |-> repeats,
         kasiskiVotes |-> votes,
         kasiskiData |-> kData,
         iocData |-> iData,
         k1 |-> TopK(kData, [i \in 1..Len(kData) |-> kData[i].votes]),
         k2 |-> TopK(iData, [i \in 1..Len(iData) |-> iData[i].ioc])]

\* the memoized values, by dependency tuple
MemoKeys ==
    {<<r, n, pw, mk, limit>> : r \in RawTexts, n \in NgramChoices \cup {3}, pw \in BOOLEAN,
                               mk \in MaxKChoices \cup {30}, limit \in LimitChoices \cup {30}}

AnalysisMemo == [c \in MemoKeys |-> Analysis(c[1], c[2], c[3], c[4], c[5])]

Memo == AnalysisMemo[<<raw, ngram, pairwise, maxK, limitFactors>>]

\* a JavaScript number or null/undefined used as a condition
Truthy(x) == x # Null /\ x # 0

\* a fallback that asks the IoC sweep before the Kasiski votes
FallbackIocFirst(k1, k2) == IF Truthy(k2) THEN k2 ELSE IF Truthy(k1) THEN k1 ELSE 1

\* k1 || k2 || 1
FallbackK(k1, k2) == IF Truthy(k1) THEN k1 ELSE IF Truthy(k2) THEN k2 ELSE 1

\* a working key length that ignores the pin
workingKUnpinned(selK, k1, k2) == FallbackK(k1, k2)

\* if (selectedK) return selectedK; ... return k1 || k2 || 1
workingKOf(selK, k1, k2) == IF Truthy(selK) THEN selK ELSE FallbackK(k1, k2)

workingK == workingKOf(selectedK, Memo.k1, Memo.k2)

\* const cols = splitColumns(sanitized, Math.max(1, workingK)); const activeCol = cols[colIndex] || ""
activeCol ==
    LET cols == splitColumns(Memo.sanitized, Max(1, workingK))
    IN  IF colIndex + 1 <= Len(cols) THEN cols[colIndex + 1] ELSE <<>>

\* every column a key-composer button can make active
ReachableCols ==
    UNION {{splitColumns(normalizeAZ(r), k)[i] : i \in 1..Min(k, MaxCol)} :
              r \in RawTexts, k \in 1..40}

\* the memoized bestShift, by active column
BestShiftMemo == [c \in ReachableCols |-> bestShift(c)]

\* parseInt(text, 10) of a text without leading blanks: an optional sign and
\* the leading digits; NaN when there is no digit
RECURSIVE DigitsValue(_, _, _)
DigitsValue(text, i, acc) ==
    IF i > Len(text) \/ text[i] < 48 \/ text[i] > 57 THEN acc
    ELSE DigitsValue(text, i + 1, acc * 10 + (text[i] - 48))

parseInt(text) ==
    LET signed == Len(text) >= 1 /\ text[1] \in {43, 45}
        start == IF signed THEN 2 ELSE 1
    IN  IF start > Len(text) \/ text[start] < 48 \/ text[start] > 57
        THEN [nan |-> TRUE, val |-> 0]
        ELSE [nan |-> FALSE,
              val |-> IF signed /\ text[1] = 45
                      THEN 0 - DigitsValue(text, start, 0)
                      ELSE DigitsValue(text, start, 0)]

(***************************************************************************)
(* The component after mounting: every useState initial value, and the     *)
(* mount run of the resize effect (workingK is 1 on the empty text).       *)
(***************************************************************************)
AppInit ==
    /\ raw = <<>>
    /\ ngram = 3
    /\ pairwise = TRUE
    /\ maxK = 30
    /\ limitFactors = 30
    /\ selectedGram = <<>>
    /\ selectedK = Null
    /\ colIndex = 0
    /\ keyShifts = <<Null>>
    /\ manualKeyInput = <<>>

(***************************************************************************)
(* Function specifications: Init draws the arguments, the action applies   *)
(* the function.                                                           *)
(***************************************************************************)
SeqsUpTo(S, n) == UNION {[1..m -> S] : m \in 0..n}

MaxRawLen == 3
\* "A", "z", " ", sharp s, dotless i
NormChars == {65, 122, 32, 223, 305}

InitNormalize ==
    /\ AppInit
    /\ pc = "idle"
    /\ fnArgs \in SeqsUpTo(NormChars, MaxRawLen)
    /\ fnOut = <<>>

DoNormalize ==
    /\ pc = "idle"
    /\ pc' = "normalizeAZ"
    /\ fnOut' = normalizeAZ(fnArgs)
    /\ UNCHANGED <<fnArgs, appVars>>

SpecNormalize == InitNormalize /\ [][DoNormalize]_vars

MaxStreamLen == 4
MaxSplitK == 3
SplitChars == {65, 66, 90}

InitSplit ==
    /\ AppInit
    /\ pc = "idle"
    /\ fnArgs \in SeqsUpTo(SplitChars, MaxStreamLen) \X (1..MaxSplitK)
    /\ fnOut = <<>>

DoSplit ==
    /\ pc = "idle"
    /\ pc' = "splitColumns"
    /\ fnOut' = splitColumns(fnArgs[1], fnArgs[2])
    /\ UNCHANGED <<fnArgs, appVars>>

SpecSplit == InitSplit /\ [][DoSplit]_vars

MaxPlainLen == 3
MaxKeyLen == 2
\* "A", "Z", "b", "y", " "
PlainChars == {65, 90, 98, 121, 32}
SlotValues == {Null, 0, 1, 25}
KeyStates == UNION {[1..k -> SlotValues] : k \in 1..MaxKeyLen}

\* The ciphertext of a plaintext under a key state: the j-th letter moves
\* forward by the shift of slot j mod k and keeps its case (an Undetermined
\* slot leaves it where it is); other characters stay.
RECURSIVE EncodeFrom(_, _, _, _)
EncodeFrom(plain, ks, pos, j) ==
    IF pos > Len(plain) THEN <<>>
    ELSE LET ch == plain[pos]
             s == ks[(j % Len(ks)) + 1]
             base == IF IsAZ(ch) THEN 65 ELSE 97
         IN  IF IsAlpha(ch)
             THEN <<IF s = Null THEN ch ELSE base + ((ch - base + s) % 26)>>
                  \o EncodeFrom(plain, ks, pos + 1, j + 1)
             ELSE <<ch>> \o EncodeFrom(plain, ks, pos + 1, j)

Encode(plain, ks) == EncodeFrom(plain, ks, 1, 0)

\* fnArgs = <<plaintext, key state>>; the decoder gets the ciphertext
InitDecode ==
    /\ AppInit
    /\ pc = "idle"
    /\ fnArgs \in SeqsUpTo(PlainChars, MaxPlainLen) \X KeyStates
    /\ fnOut = <<>>

DoDecode ==
    /\ pc = "idle"
    /\ pc' = "decodePartial"
    /\ fnOut' = decodePartial(Encode(fnArgs[1], fnArgs[2]), fnArgs[2], Len(fnArgs[2]))
    /\ UNCHANGED <<fnArgs, appVars>>

SpecDecode == InitDecode /\ [][DoDecode]_vars

MaxColLen == 2
\* "A", "E", "Z"
ChiChars == {65, 69, 90}
\* every short column, and "ABLNO"
ChiColumns == SeqsUpTo(ChiChars, MaxColLen) \cup {<<65, 66, 76, 78, 79>>}
ChiShifts == {0, 1, 7, 9, 25}

\* fnArgs = <<column, shift>>
InitChi ==
    /\ AppInit
    /\ pc = "idle"
    /\ fnArgs \in ChiColumns \X ChiShifts
    /\ fnOut = <<>>

DoChiForShift ==
    /\ pc = "idle"
    /\ pc' = "chiForShift"
    /\ fnOut' = chiForShift(fnArgs[1], fnArgs[2])
    /\ UNCHANGED <<fnArgs, appVars>>

DoBestShift ==
    /\ pc = "idle"
    /\ pc' = "bestShift"
    /\ fnOut' = bestShift(fnArgs[1])
    /\ UNCHANGED <<fnArgs, appVars>>

SpecChi == InitChi /\ [][DoChiForShift \/ DoBestShift]_vars

MaxDistances == 3
\* distances between occurrences, below and above the factor limits
VoteDistances == {1, 4, 6, 12}
VoteLimits == {10, 30}

\* fnArgs = <<distances, limit>>
InitVotes ==
    /\ AppInit
    /\ pc = "idle"
    /\ fnArgs \in SeqsUpTo(VoteDistances, MaxDistances) \X VoteLimits
    /\ fnOut = <<>>

DoVotes ==
    /\ pc = "idle"
    /\ pc' = "factorVotes"
    /\ fnOut' = factorVotes(fnArgs[1], fnArgs[2])
    /\ UNCHANGED <<fnArgs, appVars>>

SpecVotes == InitVotes /\ [][DoVotes]_vars

MaxGramStreamLen == 10
\* "A", "B"
GramChars == {65, 66}
GramLengths == {3, 4}

\* fnArgs = <<stream, n>>
InitRepeats ==
    /\ AppInit
    /\ pc = "idle"
    /\ fnArgs \in SeqsUpTo(GramChars, MaxGramStreamLen) \X GramLengths
    /\ fnOut = <<>>

DoRepeats ==
    /\ pc = "idle"
    /\ pc' = "findRepeats"
    /\ fnOut' = findRepeats(fnArgs[1], fnArgs[2])
    /\ UNCHANGED <<fnArgs, appVars>>

SpecRepeats == InitRepeats /\ [][DoRepeats]_vars

(***************************************************************************)
(* The component: one action per event handler, each followed by the       *)
(* render it causes and the effects of that render.                        *)
(***************************************************************************)
\* a resize that pads with the shift 0 ("A") instead of null
ResizePadsZero(prev, k) == [i \in 1..k |-> IF i <= Len(prev) THEN prev[i] ELSE 0]

\* a resize that pads at the front
ResizeShifted(prev, k) ==
    [i \in 1..k |-> IF i > k - Len(prev) THEN prev[i - (k - Len(prev))] ELSE Null]

\* Array.from({ length: workingK }, (_, i) => (prev[i] ?? null))
Resize(prev, k) == [i \in 1..k |-> IF i <= Len(prev) THEN prev[i] ELSE Null]

\* useEffect(() => { setKeyShifts(...); setColIndex(0); }, [workingK]) after
\* a handler that leaves keyShifts and colIndex alone
ResizeEffect ==
    IF workingK' # workingK
    THEN keyShifts' = Resize(keyShifts, workingK') /\ colIndex' = 0
    ELSE UNCHANGED <<keyShifts, colIndex>>

fnVars == <<pc, fnArgs, fnOut>>

\* Textarea onChange: setRaw(e.target.value)
SetRaw(text) ==
    /\ raw' = text
    /\ UNCHANGED <<ngram, pairwise, maxK, limitFactors, selectedGram, selectedK,
                   manualKeyInput, fnVars>>
    /\ ResizeEffect

\* "Paste sample": setRaw(examplePaste)
PasteSample == SetRaw(examplePaste)

\* n-gram slider: setNgram(v[0])
SetNgram(v) ==
    /\ ngram' = v
    /\ UNCHANGED <<raw, pairwise, maxK, limitFactors, selectedGram, selectedK,
                   manualKeyInput, fnVars>>
    /\ ResizeEffect

\* "Use all pairs" switch: setPairwise
SetPairwise(b) ==
    /\ pairwise' = b
    /\ UNCHANGED <<raw, ngram, maxK, limitFactors, selectedGram, selectedK,
                   manualKeyInput, fnVars>>
    /\ ResizeEffect

\* "Consider factors up to" slider: setLimitFactors(v[0])
SetLimitFactors(v) ==
    /\ limitFactors' = v
    /\ UNCHANGED <<raw, ngram, pairwise, maxK, selectedGram, selectedK,
                   manualKeyInput, fnVars>>
    /\ ResizeEffect

\* "Max K for charts" slider: setMaxK(v[0])
SetMaxK(v) ==
    /\ maxK' = v
    /\ UNCHANGED <<raw, ngram, pairwise, limitFactors, selectedGram, selectedK,
                   manualKeyInput, fnVars>>
    /\ ResizeEffect

\* click on row i of the repeat table: setSelectedGram(r.gram)
SelectGram(i) ==
    /\ i <= Len(Memo.repeats)
    /\ selectedGram' = Memo.repeats[i].gram
    /\ UNCHANGED <<raw, ngram, pairwise, maxK, limitFactors, selectedK, colIndex,
                   keyShifts, manualKeyInput, fnVars>>

\* setSelectedK(k), from any of the controls below
SetSelectedK(k) ==
    /\ selectedK' = k
    /\ UNCHANGED <<raw, ngram, pairwise, maxK, limitFactors, selectedGram,
                   manualKeyInput, fnVars>>
    /\ ResizeEffect

\* click on bar i of the Kasiski chart: setSelectedK(data.k)
BarClick(i) ==
    /\ i <= Len(Memo.kasiskiData)
    /\ SetSelectedK(Memo.kasiskiData[i].k)

\* key-length slider: setSelectedK(v[0])
KSlider(v) == SetSelectedK(v)

\* a number box that pins whatever integer was typed
KInputUnclamped(text) ==
    LET parsed == parseInt(IF text = <<>> THEN <<49>> ELSE text)
    IN  IF parsed.nan THEN UNCHANGED vars
        ELSE SetSelectedK(parsed.val)

\* key-length number box: const val = parseInt(e.target.value || '1', 10);
\* if (!Number.isNaN(val)) setSelectedK(Math.max(1, Math.min(40, val)))
KInput(text) ==
    LET parsed == parseInt(IF text = <<>> THEN <<49>> ELSE text)
    IN  IF parsed.nan THEN UNCHANGED vars
        ELSE SetSelectedK(Max(1, Min(40, parsed.val)))

\* "Clear" and "Auto (use Kasiski/IoC)": setSelectedK(null)
ClearK == SetSelectedK(Null)

\* manual key box: setManualKeyInput(e.target.value)
SetManualKeyInput(text) ==
    /\ manualKeyInput' = text
    /\ UNCHANGED <<raw, ngram, pairwise, maxK, limitFactors, selectedGram, selectedK,
                   colIndex, keyShifts, fnVars>>

\* manualKeyInput.replace(/[^A-Za-z]/g, "").toUpperCase()
KeyLetters(text) == UpperStr(SelectSeq(text, IsAlpha))

\* a key application that does not wrap around the letters
ManualShiftsNoCycle(letters, k) ==
    [i \in 1..k |-> letterToShift(letters[Min(i, Len(letters))])]

\* Array.from({ length: workingK }, (_, i) => letterToShift(letters[i % letters.length]))
ManualShifts(letters, k) ==
    [i \in 1..k |-> letterToShift(letters[((i - 1) % Len(letters)) + 1])]

\* "Apply": if (!manualKeyInput) return; ...; if (!letters) return; setKeyShifts(shifts)
ApplyManualKey ==
    /\ keyShifts' = IF manualKeyInput = <<>> \/ KeyLetters(manualKeyInput) = <<>>
                    THEN keyShifts
                    ELSE ManualShifts(KeyLetters(manualKeyInput), workingK)
    /\ UNCHANGED <<raw, ngram, pairwise, maxK, limitFactors, selectedGram, selectedK,
                   colIndex, manualKeyInput, fnVars>>

\* "Reset": setKeyShifts(Array.from({ length: workingK }, () => null))
ResetKey ==
    /\ keyShifts' = [i \in 1..workingK |-> Null]
    /\ UNCHANGED <<raw, ngram, pairwise, maxK, limitFactors, selectedGram, selectedK,
                   colIndex, manualKeyInput, fnVars>>

\* key-composer button i: setColIndex(i)
SetColIndex(i) ==
    /\ i < workingK
    /\ colIndex' = i
    /\ UNCHANGED <<raw, ngram, pairwise, maxK, limitFactors, selectedGram, selectedK,
                   keyShifts, manualKeyInput, fnVars>>

\* const next = [...prev]; next[index] = ((value % 26) + 26) % 26; return next
\* (writing past the end of an array lengthens it, the gap reads as undefined)
setShiftFor(prev, index, value) ==
    [i \in 1..Max(Len(prev), index + 1) |->
        IF i = index + 1 THEN ((value % 26) + 26) % 26
        ELSE IF i <= Len(prev) THEN prev[i] ELSE Null]

\* shift slider, A-Z picker and chi bar click: setShiftFor(colIndex, s)
SetShift(s) ==
    /\ keyShifts' = setShiftFor(keyShifts, colIndex, s)
    /\ UNCHANGED <<raw, ngram, pairwise, maxK, limitFactors, selectedGram, selectedK,
                   colIndex, manualKeyInput, fnVars>>

\* "Set best": setShiftFor(colIndex, bestShift)
SetBest == SetShift(BestShiftMemo[activeCol])

Init ==
    /\ AppInit
    /\ pc = "app"
    /\ fnArgs = <<>>
    /\ fnOut = <<>>

Next ==
    \/ \E text \in TypedTexts : SetRaw(text)
    \/ PasteSample
    \/ \E v \in NgramChoices : SetNgram(v)
    \/ \E b \in BOOLEAN : SetPairwise(b)
    \/ \E v \in LimitChoices : SetLimitFactors(v)
    \/ \E v \in MaxKChoices : SetMaxK(v)
    \/ \E i \in 1..MaxRows : SelectGram(i)
    \/ \E i \in 1..MaxBars : BarClick(i)
    \/ \E v \in KSliderChoices : KSlider(v)
    \/ \E text \in KTexts : KInput(text)
    \/ ClearK
    \/ \E text \in ManualKeys : SetManualKeyInput(text)
    \/ ApplyManualKey
    \/ ResetKey
    \/ \E i \in 0..(MaxCol - 1) : SetColIndex(i)
    \/ \E s \in ShiftChoices : SetShift(s)
    \/ SetBest

Spec == Init /\ [][Next]_vars


(***************************************************************************)
(* Properties                                                              *)
(***************************************************************************)
\* the letters of a text, in order: the characters decodePartial counts
LettersOf(s) == SelectSeq(s, IsAlpha)

\* an ASCII letter in upper case
UpperLetter(c) == IF c >= 97 THEN c - 32 ELSE c

\* the value of an ASCII letter, case-insensitive: A = 0 .. Z = 25
LetterValue(c) == UpperLetter(c) - 65

\* the Kasiski vote table restricted to k <= maxK
RestrictedVotes == {k \in DOMAIN Memo.kasiskiVotes : k <= maxK}

\* its candidate with the most votes, the smallest k among equals
HighestVotes ==
    CHOOSE k \in RestrictedVotes : \A j \in RestrictedVotes :
        \/ Memo.kasiskiVotes[k] > Memo.kasiskiVotes[j]
        \/ Memo.kasiskiVotes[k] = Memo.kasiskiVotes[j] /\ k <= j

\* the k in 1..maxK with the highest mean IoC of the sweep, the smallest among equals
HighestIoc ==
    CHOOSE k \in 1..maxK : \A j \in 1..maxK :
        \/ Memo.iocData[k].ioc > Memo.iocData[j].ioc
        \/ Memo.iocData[k].ioc = Memo.iocData[j].ioc /\ k <= j

FallbackValue ==
    IF RestrictedVotes # {} THEN HighestVotes
    ELSE IF maxK >= 1 THEN HighestIoc
    ELSE 1

\* C1: while no key length is pinned, the working key length is the Kasiski
\* candidate (k <= maxK) with the most votes, the smallest k on a tie; with
\* no such candidate, the k of 1..maxK with the highest mean IoC of the
\* sweep, the smallest k on a tie; and 1 if there is neither.
C1_FallbackPolicy == selectedK = Null => workingK = FallbackValue

\* "ABCDEAFGHI" typed: no repeated trigram, the sweep peaks at k = 5
C1_Witness ==
    /\ raw = <<65, 66, 67, 68, 69, 65, 70, 71, 72, 73>>
    /\ selectedK = Null
    /\ RestrictedVotes = {}
    /\ HighestIoc = 5
    /\ workingK = 5

\* the events that set or clear the pin
PinEvent ==
    \/ ClearK
    \/ \E v \in KSliderChoices : KSlider(v)
    \/ \E text \in KTexts : KInput(text)
    \/ \E i \in 1..MaxBars : BarClick(i)

\* C2: a pinned key length is the working key length in every state; every
\* event other than a pin or a clear keeps the pin, whatever it changes; and
\* after Clear / Auto the working key length is the fallback value again.
C2_PinOverrides ==
    /\ [](selectedK # Null => workingK = selectedK)
    /\ [][selectedK # Null
              => ((selectedK' = selectedK /\ workingK' = selectedK) \/ PinEvent)]_vars
    /\ [][(selectedK # Null /\ selectedK' = Null) => workingK' = FallbackValue']_vars

\* k = 40 pinned, then "abc ABC, abc" typed (its fallback is 3) and the
\* sliders moved
C2_Witness ==
    /\ selectedK = 40
    /\ raw = <<97, 98, 99, 32, 65, 66, 67, 44, 32, 97, 98, 99>>
    /\ maxK = 10
    /\ ngram = 6
    /\ FallbackValue = 3
    /\ workingK = 40

\* the user mutations of the key state
UserMutation ==
    \/ ApplyManualKey
    \/ SetBest
    \/ \E s \in ShiftChoices : SetShift(s)

\* every determined slot of the new key state was there with the value it has
NoSlotDetermined ==
    \A i \in DOMAIN keyShifts' :
        keyShifts'[i] # Null => (i \in DOMAIN keyShifts /\ keyShifts[i] = keyShifts'[i])

\* C3: the key state starts with every slot Undetermined, and every step
\* that determines a slot is setShiftFor ("Set best" included) or
\* applyManualKey: a change of the text, of the analysis configuration, of
\* the pin or of the selected column, with the resize that follows it,
\* determines none.
C3_NoAutoSolve ==
    /\ \A i \in DOMAIN keyShifts : keyShifts[i] = Null
    /\ [][NoSlotDetermined \/ UserMutation]_vars

\* slot 0 set to shift 0 by the user, then the key length pinned to 40: the
\* 39 new slots are Undetermined
C3_Witness ==
    /\ Len(keyShifts) = 40
    /\ keyShifts[1] = 0
    /\ \A i \in 2..40 : keyShifts[i] = Null

\* the number of letters before position pos
LettersBefore(s, pos) == Cardinality({p \in 1..(pos - 1) : IsAlpha(s[p])})

\* C4: decodePartial of the ciphertext of a plaintext under a key state of k
\* slots gives, position by position: the plaintext letter in upper case where
\* the slot of the letter (letters seen so far mod k) is determined, the
\* placeholder where it is Undetermined, and a non-letter unchanged.
C4_RoundTrip ==
    pc = "decodePartial" =>
        LET plain == fnArgs[1]
            ks == fnArgs[2]
        IN  /\ Len(fnOut) = Len(plain)
            /\ \A pos \in 1..Len(plain) :
                   fnOut[pos] =
                       IF ~IsAlpha(plain[pos]) THEN plain[pos]
                       ELSE IF ks[(LettersBefore(plain, pos) % Len(ks)) + 1] = Null THEN 183
                       ELSE UpperLetter(plain[pos])

\* "b y" under the key state <<25, Undetermined>>: ciphertext "a y", decoded "B ·"
C4_Witness ==
    /\ pc = "decodePartial"
    /\ fnArgs = <<<<98, 32, 121>>, <<25, Null>>>>
    /\ Encode(fnArgs[1], fnArgs[2]) = <<97, 32, 121>>
    /\ fnOut = <<66, 32, 183>>

\* C5: normalize(raw) is no longer than raw, and its j-th character is the
\* upper-cased j-th letter of raw (the letters decodePartial counts).
C5_OneCharPerLetter ==
    pc = "normalizeAZ" =>
        /\ Len(fnOut) <= Len(fnArgs)
        /\ fnOut = [j \in 1..Len(LettersOf(fnArgs)) |-> UpperLetter(LettersOf(fnArgs)[j])]

\* the stream positions that fall in column i (0-based) of k columns
ColumnPositions(n, k, i) == {p \in 0..(n - 1) : p % k = i}

\* C6: splitColumns(s, k) is k columns; column i holds, in order, the
\* characters of s at the positions congruent to i mod k; the lengths add up
\* to len(s); reading the columns round-robin gives s back; for k = 1 the
\* column is s.
C6_Columns ==
    pc = "splitColumns" =>
        LET s == fnArgs[1]
            k == fnArgs[2]
        IN  /\ Len(fnOut) = k
            /\ \A i \in 0..(k - 1) :
                   /\ Len(fnOut[i + 1]) = Cardinality(ColumnPositions(Len(s), k, i))
                   /\ \A m \in 1..Len(fnOut[i + 1]) : fnOut[i + 1][m] = s[(m - 1) * k + i + 1]
            /\ \A p \in 0..(Len(s) - 1) : s[p + 1] = fnOut[(p % k) + 1][(p \div k) + 1]
            /\ k = 1 => fnOut[1] = s

\* "ABZA" in 3 columns: "AA", "B", "Z"
C6_Witness ==
    /\ pc = "splitColumns"
    /\ fnArgs = <<<<65, 66, 90, 65>>, 3>>
    /\ fnOut = <<<<65, 65>>, <<66>>, <<90>>>>

\* O_i: the letters of the column whose value minus the shift (mod 26) is i
Observed(col, shift, i) ==
    Cardinality({p \in 1..Len(col) : (col[p] - 65 - shift + 26) % 26 = i})

\* the sum over the letters lo..hi of (O_i - E_i)^2 / divisor(E_i), with
\* E_i = englishFreq_i * N
RECURSIVE ChiSum(_, _, _, _, _)
ChiSum(col, shift, divisor(_), lo, hi) ==
    IF lo = hi
    THEN ChiTerm(Observed(col, shift, lo), ENG[lo + 1] * Len(col),
                 divisor(ENG[lo + 1] * Len(col)))
    ELSE BigAdd(ChiSum(col, shift, divisor, lo, (lo + hi) \div 2),
                ChiSum(col, shift, divisor, ((lo + hi) \div 2) + 1, hi))

\* the expected count itself
Unfloored(E) == E

\* C7 (amended): chiForShift(column, shift) of a non-empty column is the sum
\* over the 26 letters of (O_i - E_i)^2 / E_i: the divisor is the expected
\* count itself, also when it is below 1.
C7_ChiDividesByExpected ==
    (pc = "chiForShift" /\ Len(fnArgs[1]) > 0)
        => fnOut = ChiSum(fnArgs[1], fnArgs[2], Unfloored, 0, 25)

\* "ABLNO" at shift 7 scores 19.2420923226164
C7_Witness ==
    /\ pc = "chiForShift"
    /\ fnArgs = <<<<65, 66, 76, 78, 79>>, 7>>
    /\ fnOut = <<6164, 2322, 4209, 192>>

\* C7 (as stated): chiForShift(column, shift) of a non-empty column is the
\* sum over the 26 letters of (O_i - E_i)^2 / max(E_i, 1).
C7_ChiDividesByFlooredExpected ==
    (pc = "chiForShift" /\ Len(fnArgs[1]) > 0)
        => fnOut = ChiSum(fnArgs[1], fnArgs[2], DivisorFloored, 0, 25)

\* the shifts that minimise chiForShift on a column
ChiMinimisers(col) ==
    {s \in 0..25 : \A u \in 0..25 : ~BigLess(chiForShift(col, u), chiForShift(col, s))}

\* C8: the best-fit shift of a column is the smallest shift in 0..25 that
\* minimises chiForShift(column, shift); 0 for the empty column.
C8_BestShiftIsArgmin ==
    pc = "bestShift" =>
        /\ fnOut \in ChiMinimisers(fnArgs[1])
        /\ \A s \in ChiMinimisers(fnArgs[1]) : fnOut <= s

\* C9: the key state has workingK slots in every state, and a step that
\* changes the working key length from k to k' leaves k' slots: slot i keeps
\* its value for i < min(k, k') and is Undetermined for i >= k.
C9_ResizeKeepsPrefix ==
    /\ [](Len(keyShifts) = workingK)
    /\ [][workingK' # workingK
              => /\ Len(keyShifts') = workingK'
                 /\ \A i \in 1..workingK' :
                        keyShifts'[i] = IF i <= workingK THEN keyShifts[i] ELSE Null]_vars

\* the key "b-Z" applied to 2 slots, then the key length pinned to 3
C9_Witness ==
    /\ workingK = 3
    /\ keyShifts = <<1, 25, Null>>

\* C10: applyManualKey with L >= 1 letters in the key string sets slot i of
\* the workingK slots to the value of letter i mod L (non-letters ignored,
\* case-insensitive, A = 0 .. Z = 25); with no letter it leaves the key state
\* as it was.
C10_ManualKey ==
    [][ApplyManualKey
          => LET letters == LettersOf(manualKeyInput)
             IN  IF letters = <<>> THEN keyShifts' = keyShifts
                 ELSE /\ Len(keyShifts') = workingK
                      /\ \A i \in 0..(workingK - 1) :
                             keyShifts'[i + 1] = LetterValue(letters[(i % Len(letters)) + 1])]_vars

\* the key "b-Z" applied to 3 slots: B, Z, B
C10_Witness ==
    /\ manualKeyInput = <<98, 45, 90>>
    /\ workingK = 3
    /\ keyShifts = <<1, 25, 1>>

\* C11: in every reachable state the working key length, the one the columns
\* are split by, the key state is sized to and the preview is decoded with,
\* lies in 1..40, whatever pins (slider, number box with any integer, chart
\* bar), clears, text edits and configuration changes led to the state.
C11_WorkingKInRange ==
    /\ workingK \in 1..40
    /\ Max(1, workingK) = workingK
    /\ Len(keyShifts) = workingK
    /\ selectedK # Null => selectedK \in 1..40

\* the sample text with both chart limits at 10 and the key length pinned to
\* 40, beyond the range of the charts
C11_Witness ==
    /\ raw = examplePaste
    /\ maxK = 10
    /\ limitFactors = 10
    /\ selectedK = 40
    /\ workingK = 40
    /\ Len(keyShifts) = 40

\* the number of entries of distances, with multiplicity, that f divides
\* and that are at least f, for a factor f of 2..limit
DividedBy(distances, limit, f) ==
    Cardinality({i \in 1..Len(distances) :
                    /\ 2 <= f
                    /\ f <= Min(limit, distances[i])
                    /\ distances[i] % f = 0})

\* C12: factorVotes(distances, limit) is a table in which votes[f], for
\* every integer f, is the number of entries d of distances (with
\* multiplicity) with 2 <= f <= min(limit, d) and d mod f = 0, and f is
\* absent when that number is 0; factorVotes([12], 30) has exactly the keys
\* 2, 3, 4, 6, 12, each with count 1.
C12_FactorVotes ==
    pc = "factorVotes" =>
        LET distances == fnArgs[1]
            limit == fnArgs[2]
            candidates == DOMAIN fnOut \cup (0..(limit + 12))
        IN  /\ DOMAIN fnOut = {f \in candidates : DividedBy(distances, limit, f) > 0}
            /\ \A f \in DOMAIN fnOut : fnOut[f] = DividedBy(distances, limit, f)
            /\ (distances = <<12>> /\ limit = 30)
                   => fnOut = (2 :> 1) @@ (3 :> 1) @@ (4 :> 1) @@ (6 :> 1) @@ (12 :> 1)

\* the distances 12, 4, 12 with limit 10: 2 and 4 divide all three, 3 and 6
\* divide the two 12s, 12 itself is above the limit
C12_Witness ==
    /\ pc = "factorVotes"
    /\ fnArgs = <<<<12, 4, 12>>, 10>>
    /\ fnOut = (2 :> 3) @@ (3 :> 2) @@ (4 :> 3) @@ (6 :> 2)

\* the 0-based start positions of the length-n substrings of stream
Starts(stream, n) == 0..(Len(stream) - n)

\* the start positions at which gram occurs in stream, overlaps included
Occurrences(stream, gram) ==
    {p \in Starts(stream, Len(gram)) : SubSeq(stream, p + 1, p + Len(gram)) = gram}

\* the length-n substrings of stream that occur at two or more positions
RepeatedGrams(stream, n) ==
    {g \in {SubSeq(stream, p + 1, p + n) : p \in Starts(stream, n)} :
        Cardinality(Occurrences(stream, g)) >= 2}

\* the least element of a non-empty set of positions
First(positions) == CHOOSE p \in positions : \A q \in positions : p <= q

\* C13: findRepeats(stream, n) lists exactly the length-n substrings of
\* stream that occur at two or more start positions (overlaps included), each
\* once and with the ascending list of all its 0-based start positions, by
\* occurrence count descending and, for equal counts, in the order of first
\* occurrence in the stream; it is empty when n exceeds the stream length.
C13_FindRepeats ==
    pc = "findRepeats" =>
        LET stream == fnArgs[1]
            n == fnArgs[2]
            occ(i) == Occurrences(stream, fnOut[i].gram)
        IN  /\ {fnOut[i].gram : i \in 1..Len(fnOut)} = RepeatedGrams(stream, n)
            /\ Len(fnOut) = Cardinality(RepeatedGrams(stream, n))
            /\ \A i \in 1..Len(fnOut) :
                   /\ Len(fnOut[i].positions) = Cardinality(occ(i))
                   /\ {fnOut[i].positions[m] : m \in 1..Len(fnOut[i].positions)} = occ(i)
                   /\ \A m \in 1..(Len(fnOut[i].positions) - 1) :
                          fnOut[i].positions[m] < fnOut[i].positions[m + 1]
            /\ \A i, j \in 1..Len(fnOut) :
                   i < j => \/ Cardinality(occ(i)) > Cardinality(occ(j))
                            \/ /\ Cardinality(occ(i)) = Cardinality(occ(j))
                               /\ First(occ(i)) < First(occ(j))
            /\ n > Len(stream) => fnOut = <<>>

\* "ABABABBBBB" with n = 3: "BBB" (three overlapping occurrences) comes before
\* "ABA" and "BAB" (two each), which keep the order they were first seen in
C13_Witness ==
    /\ pc = "findRepeats"
    /\ fnArgs = <<<<65, 66, 65, 66, 65, 66, 66, 66, 66, 66>>, 3>>
    /\ fnOut = << [gram |-> <<66, 66, 66>>, positions |-> <<5, 6, 7>>],
                  [gram |-> <<65, 66, 65>>, positions |-> <<0, 2>>],
                  [gram |-> <<66, 65, 66>>, positions |-> <<1, 3>>] >>

=============================================================================
